---------------------------- MODULE Spec2Model ----------------------------
(***************************************************************************)
(* Habitify: the entry store (sdk/habit_tracker.py) and the analytics      *)
(* commands of the CLI (cli/cli_tool.py).                                  *)
(*                                                                         *)
(* Text is a sequence of one-character strings.  The log file is the text  *)
(* on disk; rows are written by csv.writer and read back by csv.reader     *)
(* from a file opened in text mode (universal newlines).  Calendar dates   *)
(* are proleptic Gregorian ordinals, converted to and from "YYYY-MM-DD".   *)
(***************************************************************************)
EXTENDS Integers, Sequences, FiniteSets, TLC

VARIABLES
    exists,   \* whether data/habits.csv exists
    file,     \* its content, a sequence of characters
    today,    \* datetime.now().date(), as an ordinal
    hist,     \* ghost: the entries logged and not deleted since, in call order
    deleted,  \* ghost: whether delete_habit has been called
    calls,    \* ghost: the number of log_habit calls made
    last,     \* ghost: the last store call
    seen,     \* ghost: the streaks reported so far, in order
    out       \* what the last CLI command computed and printed

vars == <<exists, file, today, hist, deleted, calls, last, seen, out>>

(***************************************************************************)
(* Bounds of the model.                                                    *)
(***************************************************************************)
MaxRows == 2        \* log_habit calls made in the store specification
MaxHabitLen == 1    \* length of a habit name passed to the store
MaxStatusLen == 1   \* length of a status passed to the store
MaxTicks == 1       \* midnights passed in the store specification
MaxLog == 3         \* rows of a log the analytics commands are run on
MaxBack == 2        \* days before today of the dates in such a log
MaxAhead == 1       \* days after today of the dates in such a log
DateRange == 12     \* days around today whose text the model tabulates

(***************************************************************************)
(* Characters and str.lower().                                             *)
(***************************************************************************)
COMMA == ","
QUOTE == "\""
CR == "\r"
LF == "\n"

\* The characters of the arguments given to the store.
StoreChars == {"a", "A", COMMA, QUOTE, CR, LF}

Strings(chars, n) == UNION {[1..k -> chars] : k \in 0..n}

\* Longer names of interest: a CRLF pair, a doubled quote, two cases of a letter.
ExtraHabits == {<<CR, LF>>, <<QUOTE, QUOTE>>, <<"a", "A">>}

HabitArgs == Strings(StoreChars, MaxHabitLen) \cup ExtraHabits
\* Statuses take the same path through the writer and the reader as names do.
StatusChars == {COMMA, CR}

StatusArgs == Strings(StatusChars, MaxStatusLen)

UpperChars == <<"A","B","C","D","E","F","G","H","I","J","K","L","M",
                "N","O","P","Q","R","S","T","U","V","W","X","Y","Z">>
LowerChars == <<"a","b","c","d","e","f","g","h","i","j","k","l","m",
                "n","o","p","q","r","s","t","u","v","w","x","y","z">>

LowerChar(c) ==
    IF \E i \in DOMAIN UpperChars : UpperChars[i] = c
    THEN LowerChars[CHOOSE i \in DOMAIN UpperChars : UpperChars[i] = c]
    ELSE c

Lower(s) == [i \in DOMAIN s |-> LowerChar(s[i])]

RECURSIVE ConcatFrom(_, _)
ConcatFrom(ss, i) == IF i > Len(ss) THEN <<>> ELSE ss[i] \o ConcatFrom(ss, i + 1)

\* (Arguments of the recursive operators are bound as values first, so that
\* they are evaluated once.)
Concat(ss) == CHOOSE r \in {ConcatFrom(v, 1) : v \in {ss}} : TRUE

(***************************************************************************)
(* datetime.date: ordinals, isoformat and strptime('%Y-%m-%d').            *)
(***************************************************************************)
IsLeap(y) == y % 4 = 0 /\ (y % 100 # 0 \/ y % 400 = 0)

DaysInMonthTable == <<31, 28, 31, 30, 31, 30, 31, 31, 30, 31, 30, 31>>

DaysInMonth(y, m) == IF m = 2 /\ IsLeap(y) THEN 29 ELSE DaysInMonthTable[m]

RECURSIVE DaysBeforeMonth(_, _)
DaysBeforeMonth(y, m) ==
    IF m = 1 THEN 0 ELSE DaysBeforeMonth(y, m - 1) + DaysInMonth(y, m - 1)

DaysBeforeYear(y) ==
    (y - 1) * 365 + ((y - 1) \div 4) - ((y - 1) \div 100) + ((y - 1) \div 400)

YMD2Ord(y, m, d) == DaysBeforeYear(y) + DaysBeforeMonth(y, m) + d

\* date.fromordinal: the year by the 400/100/4/1-year cycles, then the month.
Ord2YMD(ord) ==
    LET n0   == ord - 1
        n400 == n0 \div 146097
        r400 == n0 % 146097
        n100 == r400 \div 36524
        r100 == r400 % 36524
        n4   == r100 \div 1461
        r4   == r100 % 1461
        n1   == r4 \div 365
        n    == r4 % 365
        year == n400 * 400 + 1 + n100 * 100 + n4 * 4 + n1
    IN  IF n1 = 4 \/ n100 = 4
        THEN [y |-> year - 1, m |-> 12, d |-> 31]
        ELSE LET m == CHOOSE k \in 1..12 :
                        /\ DaysBeforeMonth(year, k) <= n
                        /\ n < DaysBeforeMonth(year, k) + DaysInMonth(year, k)
             IN  [y |-> year, m |-> m, d |-> n - DaysBeforeMonth(year, m) + 1]

DigitChars == <<"0","1","2","3","4","5","6","7","8","9">>

IsDigit(c) == \E i \in DOMAIN DigitChars : DigitChars[i] = c

DigitVal(c) == (CHOOSE i \in DOMAIN DigitChars : DigitChars[i] = c) - 1

Digit(n) == DigitChars[n + 1]

\* str(date): '%04d-%02d-%02d'
DateStr(ord) ==
    LET t == Ord2YMD(ord)
    IN  << Digit((t.y \div 1000) % 10), Digit((t.y \div 100) % 10),
           Digit((t.y \div 10) % 10), Digit(t.y % 10), "-",
           Digit(t.m \div 10), Digit(t.m % 10), "-",
           Digit(t.d \div 10), Digit(t.d % 10) >>

BadDate == -1

\* The first day of the model: 2024-02-29, so that the days around it cross a
\* leap day and a month's end.
Today0 == YMD2Ord(2024, 2, 29)

\* datetime.strptime(s, '%Y-%m-%d').date() on the zero-padded form the store
\* writes; BadDate stands for the ValueError of any other text or of a day
\* that is not in the calendar.
Strptime(s) ==
    IF /\ Len(s) = 10
       /\ s[5] = "-" /\ s[8] = "-"
       /\ \A i \in {1, 2, 3, 4, 6, 7, 9, 10} : IsDigit(s[i])
    THEN LET y == DigitVal(s[1]) * 1000 + DigitVal(s[2]) * 100
                     + DigitVal(s[3]) * 10 + DigitVal(s[4])
             m == DigitVal(s[6]) * 10 + DigitVal(s[7])
             d == DigitVal(s[9]) * 10 + DigitVal(s[10])
         IN  IF y >= 1 /\ m \in 1..12 /\ d >= 1 /\ d <= DaysInMonth(y, m)
             THEN YMD2Ord(y, m, d)
             ELSE BadDate
    ELSE BadDate

(***************************************************************************)
(* csv.writer (excel dialect, QUOTE_MINIMAL, lineterminator '\r\n').       *)
(***************************************************************************)
NeedsQuote(f) == \E i \in DOMAIN f : f[i] \in {COMMA, QUOTE, CR, LF}

WriteField(f) ==
    IF NeedsQuote(f)
    THEN <<QUOTE>>
         \o Concat([i \in DOMAIN f |-> IF f[i] = QUOTE THEN <<QUOTE, QUOTE>> ELSE <<f[i]>>])
         \o <<QUOTE>>
    ELSE f

JoinFields(fs) ==
    Concat([i \in DOMAIN fs |->
               IF i = 1 THEN WriteField(fs[i]) ELSE <<COMMA>> \o WriteField(fs[i])])

\* writer.writerow(row); a row of one empty field is written as '""'.
WriteRow(fs) ==
    (IF fs = << <<>> >> THEN <<QUOTE, QUOTE>> ELSE JoinFields(fs)) \o <<CR, LF>>

WriteRows(rows) == Concat([i \in DOMAIN rows |-> WriteRow(rows[i])])

(***************************************************************************)
(* open(path, 'r'): universal newlines, then csv.reader over the lines.    *)
(***************************************************************************)
\* '\r\n' and a lone '\r' are both read as '\n': the '\n' after a '\r' is
\* dropped and every '\r' becomes '\n'.
Translate(t) ==
    LET kept == SelectSeq([i \in DOMAIN t |-> i],
                          LAMBDA i : ~(t[i] = LF /\ i > 1 /\ t[i - 1] = CR))
    IN  [k \in DOMAIN kept |-> IF t[kept[k]] = CR THEN LF ELSE t[kept[k]]]

EOL == "EOL"

\* The reader's parse_process_char: p is [st, fld, flds, rows].
ProcessChar(p, c) ==
    LET nl == c \in {LF, CR}
        saved == Append(p.flds, p.fld)
        endRec(q) == [q EXCEPT !.st = "START_RECORD",
                               !.rows = Append(q.rows, q.flds),
                               !.flds = <<>>, !.fld = <<>>]
        startField ==
            IF nl \/ c = EOL
            THEN LET q == [p EXCEPT !.flds = saved, !.fld = <<>>]
                 IN  IF c = EOL THEN endRec(q) ELSE [q EXCEPT !.st = "EAT_CRNL"]
            ELSE IF c = QUOTE THEN [p EXCEPT !.st = "IN_QUOTED_FIELD"]
            ELSE IF c = COMMA THEN [p EXCEPT !.flds = saved, !.fld = <<>>,
                                             !.st = "START_FIELD"]
            ELSE [p EXCEPT !.fld = Append(p.fld, c), !.st = "IN_FIELD"]
    IN  CASE p.st = "START_RECORD" ->
                IF c = EOL THEN endRec(p)
                ELSE IF nl THEN [p EXCEPT !.st = "EAT_CRNL"]
                ELSE startField
          [] p.st = "START_FIELD" -> startField
          [] p.st = "IN_FIELD" ->
                IF nl \/ c = EOL
                THEN LET q == [p EXCEPT !.flds = saved, !.fld = <<>>]
                     IN  IF c = EOL THEN endRec(q) ELSE [q EXCEPT !.st = "EAT_CRNL"]
                ELSE IF c = COMMA THEN [p EXCEPT !.flds = saved, !.fld = <<>>,
                                                 !.st = "START_FIELD"]
                ELSE [p EXCEPT !.fld = Append(p.fld, c)]
          [] p.st = "IN_QUOTED_FIELD" ->
                IF c = EOL THEN p
                ELSE IF c = QUOTE THEN [p EXCEPT !.st = "QUOTE_IN_QUOTED_FIELD"]
                ELSE [p EXCEPT !.fld = Append(p.fld, c)]
          [] p.st = "QUOTE_IN_QUOTED_FIELD" ->
                IF c = QUOTE THEN [p EXCEPT !.fld = Append(p.fld, c),
                                            !.st = "IN_QUOTED_FIELD"]
                ELSE IF c = COMMA THEN [p EXCEPT !.flds = saved, !.fld = <<>>,
                                                 !.st = "START_FIELD"]
                ELSE IF nl \/ c = EOL
                THEN LET q == [p EXCEPT !.flds = saved, !.fld = <<>>]
                     IN  IF c = EOL THEN endRec(q) ELSE [q EXCEPT !.st = "EAT_CRNL"]
                ELSE [p EXCEPT !.fld = Append(p.fld, c), !.st = "IN_FIELD"]
          [] p.st = "EAT_CRNL" ->
                IF nl THEN p
                ELSE IF c = EOL THEN endRec(p)
                ELSE [p EXCEPT !.st = "ERROR"]
          [] OTHER -> p

\* Reader.__next__ on character i of the text: the character, then EOL when it
\* ends a line; nothing more is read after an error.
ReadChar(t, i, p) ==
    IF p.st = "ERROR" THEN p
    ELSE CHOOSE r \in {IF t[i] = LF THEN ProcessChar(q, EOL) ELSE q :
                        q \in {ProcessChar(p, t[i])}} : TRUE

\* The characters lo..hi in turn, from parser state p (the range is halved so
\* that the evaluation does not nest as deep as the text is long).
RECURSIVE ReadRange(_, _, _, _)
ReadRange(t, lo, hi, p) ==
    IF lo > hi THEN p
    ELSE IF lo = hi THEN ReadChar(t, lo, p)
    ELSE CHOOSE r \in {ReadRange(t, (lo + hi) \div 2 + 1, hi, q) :
                        q \in {ReadRange(t, lo, (lo + hi) \div 2, p)}} : TRUE

\* Reader.__next__ over the lines of the file: every character of a line, then
\* EOL, also after a last line that no '\n' ends.
ReadChars(t, p) ==
    CHOOSE r \in {IF q.st # "ERROR" /\ t # <<>> /\ t[Len(t)] # LF
                   THEN ProcessChar(q, EOL) ELSE q :
                   q \in {ReadRange(t, 1, Len(t), p)}} : TRUE

CsvError == "_csv.Error"
FileNotFound == "FileNotFoundError"
IndexErr == "IndexError"
NoErr == ""

\* The rows read from the translated text t, or CsvError.
ReadText(t) ==
    LET p == ReadChars(t, [st |-> "START_RECORD", fld |-> <<>>,
                           flds |-> <<>>, rows |-> <<>>])
    IN  IF p.st = "ERROR" THEN [err |-> CsvError, rows |-> <<>>]
        ELSE IF p.st # "START_RECORD" /\ (p.fld # <<>> \/ p.st = "IN_QUOTED_FIELD")
        THEN [err |-> NoErr, rows |-> Append(p.rows, Append(p.flds, p.fld))]
        ELSE [err |-> NoErr, rows |-> p.rows]

\* list(csv.reader(file)): [err, rows].
ReadRows(content) ==
    CHOOSE r \in {ReadText(t) : t \in {Translate(content)}} : TRUE

(***************************************************************************)
(* HabitTracker                                                            *)
(***************************************************************************)
Entry(d, h, s) == [date |-> d, habit |-> h, status |-> s]

\* view_habits(): [err, habits], one dict per row from row[0], row[1], row[2].
ViewHabits(ex, content) ==
    IF ~ex THEN [err |-> FileNotFound, habits |-> <<>>]
    ELSE LET r == ReadRows(content)
         IN  IF r.err # NoErr THEN [err |-> r.err, habits |-> <<>>]
             ELSE IF \E i \in DOMAIN r.rows : Len(r.rows[i]) < 3
             THEN [err |-> IndexErr, habits |-> <<>>]
             ELSE [err |-> NoErr,
                   habits |-> [i \in DOMAIN r.rows |->
                                  Entry(r.rows[i][1], r.rows[i][2], r.rows[i][3])]]

\* What a command leaves behind: the error it died of, what it printed ("none",
\* "empty": its empty-state message, "report", or "header": a report cut short
\* by an error), and the values it computed.
NoOut == [cmd |-> "none", err |-> NoErr, msg |-> "none", days |-> 0,
          name |-> <<>>, recent |-> <<>>, found |-> <<>>, groups |-> <<>>,
          streak |-> 0, counted |-> <<>>, total |-> 0, unique |-> 0,
          rate |-> 0, top |-> <<>>, activity |-> <<>>, badges |-> <<>>]

KeepRowNoCase(row, name) == Lower(row[2]) # Lower(name)

\* The row filter of delete_habit: row[1] != habit_name.
KeepRow(row, name) == row[2] # name

\* Ghost record of a store call.  For delete_habit: the number of rows removed,
\* whether a row whose name differs from the argument only in case was kept,
\* and the entries view_habits() returned before the call whose habit is not
\* the argument.
NoCall == [op |-> "none", err |-> NoErr, removed |-> 0, keptVariant |-> FALSE,
           expect |-> <<>>]

\* log_habit(habit_name, status): append one row dated today (mode 'a' creates
\* the file).
LogHabit(h, s) ==
    /\ calls < MaxRows
    /\ calls' = calls + 1
    /\ exists' = TRUE
    /\ \E row \in {<<DateStr(today), h, s>>} : file' = file \o WriteRow(row)
    /\ hist' = Append(hist, [day |-> today, habit |-> h, status |-> s])
    /\ last' = [NoCall EXCEPT !.op = "log"]
    /\ UNCHANGED <<today, deleted, seen, out>>

\* delete_habit(habit_name): read every row, reopen the file for writing (which
\* truncates it), then write the rows kept; row[1] of a row with fewer than two
\* fields raises IndexError after the truncation.
DeleteHabit(name) ==
    \E r \in {ReadRows(file)} :
        /\ deleted' = TRUE
        /\ hist' = SelectSeq(hist, LAMBDA e : e.habit # name)
        /\ UNCHANGED <<today, calls, seen, out>>
        /\ IF ~exists
           THEN /\ last' = [NoCall EXCEPT !.op = "delete", !.err = FileNotFound]
                /\ UNCHANGED <<exists, file>>
           ELSE IF r.err # NoErr
           THEN /\ last' = [NoCall EXCEPT !.op = "delete", !.err = r.err]
                /\ UNCHANGED <<exists, file>>
           ELSE IF \E i \in DOMAIN r.rows : Len(r.rows[i]) < 2
           THEN /\ last' = [NoCall EXCEPT !.op = "delete", !.err = IndexErr]
                /\ file' = <<>>
                /\ UNCHANGED exists
           ELSE \E kept \in {SelectSeq(r.rows, LAMBDA row : KeepRow(row, name))},
                   before \in {ViewHabits(exists, file)} :
                    /\ last' = [NoCall EXCEPT
                                  !.op = "delete",
                                  !.err = before.err,
                                  !.expect = SelectSeq(before.habits,
                                                       LAMBDA e : e.habit # name),
                                  !.removed = Len(r.rows) - Len(kept),
                                  !.keptVariant =
                                      \E i \in DOMAIN kept :
                                          /\ kept[i][2] # name
                                          /\ Lower(kept[i][2]) = Lower(name)]
                    /\ file' = WriteRows(kept)
                    /\ UNCHANGED exists

\* Midnight passes.
Tick ==
    /\ today < Today0 + MaxTicks
    /\ today' = today + 1
    /\ UNCHANGED <<exists, file, hist, deleted, calls, last, seen, out>>

Init ==
    /\ exists \in BOOLEAN
    /\ file = <<>>
    /\ today = Today0
    /\ hist = <<>>
    /\ deleted = FALSE
    /\ calls = 0
    /\ last = NoCall
    /\ seen = <<>>
    /\ out = NoOut

Next ==
    \/ \E h \in HabitArgs, s \in StatusArgs : LogHabit(h, s)
    \/ \E h \in HabitArgs : DeleteHabit(h)
    \/ Tick

Spec == Init /\ [][Next]_vars

\* delete_habit on the logs of at most MaxLog rows whose habits are a letter in
\* either case, a comma, a quote, a carriage return or empty.
DeleteNames == {<<"a">>, <<"A">>, <<COMMA>>, <<QUOTE>>, <<CR>>, <<>>}

DeleteRows == {<<DateStr(Today0), h, <<>>>> : h \in DeleteNames}

InitDelete ==
    /\ exists = TRUE
    /\ file \in {WriteRows(l) : l \in UNION {[1..k -> DeleteRows] : k \in 0..MaxLog}}
    /\ today = Today0
    /\ hist = <<>>
    /\ deleted = FALSE
    /\ calls = 0
    /\ last = NoCall
    /\ seen = <<>>
    /\ out = NoOut

NextDelete == \E h \in DeleteNames \cup {<<LF>>} : DeleteHabit(h)

SpecDelete == InitDelete /\ [][NextDelete]_vars

(***************************************************************************)
(* Python floats (IEEE 754 binary64, round to nearest even), for the       *)
(* non-negative values the commands compute.  A float is [m, e]: m the     *)
(* bits of an integer, most significant first, with no leading and no      *)
(* trailing zero (empty for 0.0), and e the power of two that scales it.   *)
(***************************************************************************)
Prec == 53

FZero == [m |-> <<>>, e |-> 0]

RECURSIVE Bits(_)
Bits(n) == IF n = 0 THEN <<>> ELSE Append(Bits(n \div 2), n % 2)

RECURSIVE BitsValFrom(_, _, _)
BitsValFrom(b, i, acc) ==
    IF i > Len(b) THEN acc ELSE BitsValFrom(b, i + 1, 2 * acc + b[i])

BitsVal(b) == CHOOSE r \in {BitsValFrom(v, 1, 0) : v \in {b}} : TRUE

RECURSIVE Pow2(_)
Pow2(k) == IF k = 0 THEN 1 ELSE 2 * Pow2(k - 1)

\* The float of bits b scaled by 2^e, b of at most Prec bits.
Normal(b, e) ==
    IF \A i \in DOMAIN b : b[i] = 0 THEN FZero
    ELSE LET hi == CHOOSE i \in DOMAIN b : b[i] = 1 /\ \A j \in i + 1..Len(b) : b[j] = 0
         IN  [m |-> SubSeq(b, 1, hi), e |-> e + Len(b) - hi]

\* b + 1, for b the kept bits of a rounding.
Inc(b) ==
    IF \A i \in DOMAIN b : b[i] = 1
    THEN <<1>> \o [i \in DOMAIN b |-> 0]
    ELSE LET z == CHOOSE i \in DOMAIN b : b[i] = 0 /\ \A j \in i + 1..Len(b) : b[j] = 1
         IN  [i \in DOMAIN b |-> IF i < z THEN b[i] ELSE IF i = z THEN 1 ELSE 0]

\* Round b * 2^e, plus a positive amount below b's last bit when sticky, to
\* Prec bits: to nearest, ties to even.
RoundBits(b, e, sticky) ==
    IF Len(b) <= Prec THEN Normal(b, e)
    ELSE LET keep == SubSeq(b, 1, Prec)
             rest == sticky \/ \E i \in Prec + 2..Len(b) : b[i] = 1
             up   == b[Prec + 1] = 1 /\ (rest \/ keep[Prec] = 1)
             e2   == e + Len(b) - Prec
             inc  == Inc(keep)
         IN  IF ~up THEN Normal(keep, e2)
             ELSE IF Len(inc) > Prec THEN Normal(SubSeq(inc, 1, Prec), e2 + 1)
             ELSE Normal(inc, e2)

\* One bit of b times k: w is [carry, acc], acc the bits of the product so far.
MulStep(b, k, i, w) ==
    CHOOSE r \in {[carry |-> s \div 2, acc |-> <<s % 2>> \o w.acc] :
                   s \in {b[i] * k + w.carry}} : TRUE

\* The bits hi down to lo of b times k (the range is halved so that the
\* evaluation does not nest as deep as b is long).
RECURSIVE MulRange(_, _, _, _, _)
MulRange(b, k, lo, hi, w) ==
    IF lo > hi THEN w
    ELSE IF lo = hi THEN MulStep(b, k, lo, w)
    ELSE CHOOSE r \in {MulRange(b, k, lo, (lo + hi) \div 2, x) :
                        x \in {MulRange(b, k, (lo + hi) \div 2 + 1, hi, w)}} : TRUE

\* b times the small integer k, exactly.
BigMul(b, k) ==
    CHOOSE r \in {Bits(w.carry) \o w.acc :
                   w \in {MulRange(v, k, 1, Len(v), [carry |-> 0, acc |-> <<>>]) :
                            v \in {b}}} : TRUE

\* One step of the long division of b by the small integer d, continued below
\* b's last bit until the quotient has Prec + 1 bits: w is [q, ext, r], ext the
\* number of steps below b's last bit.
DivStep(b, d, i, w) ==
    IF i > Len(b) /\ Len(w.q) >= Prec + 1 THEN w
    ELSE CHOOSE x \in {[q |-> IF w.q = <<>> /\ r2 < d THEN w.q
                               ELSE Append(w.q, IF r2 >= d THEN 1 ELSE 0),
                         ext |-> IF i > Len(b) THEN w.ext + 1 ELSE w.ext,
                         r |-> IF r2 >= d THEN r2 - d ELSE r2] :
                        r2 \in {2 * w.r + (IF i <= Len(b) THEN b[i] ELSE 0)}} : TRUE

\* The steps lo..hi of the division (the range is halved so that the
\* evaluation does not nest as deep as the quotient is long).
RECURSIVE DivRange(_, _, _, _, _)
DivRange(b, d, lo, hi, w) ==
    IF lo > hi THEN w
    ELSE IF lo = hi THEN DivStep(b, d, lo, w)
    ELSE CHOOSE r \in {DivRange(b, d, (lo + hi) \div 2 + 1, hi, x) :
                        x \in {DivRange(b, d, lo, (lo + hi) \div 2, w)}} : TRUE

\* The bits of an int of the commands: no step of a division is left to do
\* after Len(b) + Prec + 1 + IntBits of them.
IntBits == 31

\* float * int
FMulInt(x, k) ==
    IF x.m = <<>> \/ k = 0 THEN FZero ELSE RoundBits(BigMul(x.m, k), x.e, FALSE)

\* float / int, d > 0
FDivInt(x, d) ==
    IF x.m = <<>> THEN FZero
    ELSE CHOOSE f \in {RoundBits(t.q, x.e - t.ext, t.r # 0) :
                        t \in {DivRange(v, d, 1, Len(v) + Prec + 1 + IntBits,
                                         [q |-> <<>>, ext |-> 0, r |-> 0]) :
                                v \in {x.m}}} : TRUE

FromInt(n) == Normal(Bits(n), 0)

\* int / int (true division), b > 0
FDiv(a, b) == CHOOSE f \in {FDivInt(v, b) : v \in {FromInt(a)}} : TRUE

\* int(x): truncation
FTrunc(x) ==
    IF x.m = <<>> THEN 0
    ELSE IF x.e >= 0 THEN BitsVal(x.m) * Pow2(x.e)
    ELSE IF Len(x.m) + x.e <= 0 THEN 0
    ELSE BitsVal(SubSeq(x.m, 1, Len(x.m) + x.e))

\* f"{x:.1f}", as the number of tenths printed: x * 10 rounded to the nearest
\* integer, ties to even, from the exact binary value.
FTenths(x) ==
    IF x.m = <<>> THEN 0
    ELSE CHOOSE t \in
           { IF x.e >= 0 THEN BitsVal(p) * Pow2(x.e)
             ELSE IF Len(p) + x.e < 0 THEN 0
             ELSE LET n    == Len(p) + x.e
                      int  == BitsVal(SubSeq(p, 1, n))
                      half == p[n + 1] = 1
                      rest == \E i \in n + 2..Len(p) : p[i] = 1
                  IN  IF half /\ (rest \/ int % 2 = 1) THEN int + 1 ELSE int
             : p \in {BigMul(x.m, 10)} } : TRUE

(***************************************************************************)
(* The CLI commands.  Each invocation is one process: it reads the log     *)
(* with view_habits() and runs one command on it.                          *)
(***************************************************************************)
KeyErr == "KeyError"
ZeroDiv == "ZeroDivisionError"
ValueErr == "ValueError"

S_completed == <<"c","o","m","p","l","e","t","e","d">>
S_exceeded == <<"e","x","c","e","e","d","e","d">>
S_partial == <<"p","a","r","t","i","a","l">>
S_skipped == <<"s","k","i","p","p","e","d">>
S_total == <<"t","o","t","a","l">>

\* entry['status'].lower() in ['completed', 'exceeded']
IsSuccess(e) == Lower(e.status) \in {S_completed, S_exceeded}

InWindowStrict(h, cutoff) == Strptime(h.date) > cutoff

\* datetime.strptime(h['date'], '%Y-%m-%d').date() >= cutoff_date
InWindow(h, cutoff) == Strptime(h.date) >= cutoff

\* [h for h in habits if strptime(h['date']).date() >= today - timedelta(days)]
RecentHabits(habits, now, days) ==
    SelectSeq(habits, LAMBDA h : InWindow(h, now - days))

BadDates(habits) == \E i \in DOMAIN habits : Strptime(habits[i].date) = BadDate

\* list.sort(key=date, reverse=True): descending and stable, entries of one
\* date keep their order.
SortByDateDesc(es) ==
    LET key == [i \in DOMAIN es |-> Strptime(es[i].date)]
        pos(i) == Cardinality({j \in DOMAIN es : key[j] > key[i]})
                  + Cardinality({j \in DOMAIN es : j < i /\ key[j] = key[i]}) + 1
    IN  [k \in DOMAIN es |-> es[CHOOSE i \in DOMAIN es : pos(i) = k]]

StartsStreakWide(d, now) == d >= now - 2 /\ d <= now

\* The dates at which the first success may start a streak.
StartsStreak(d, now) == d = now \/ d = now - 1

\* The streak loop over the sorted entries: w is [streak, counted].
RECURSIVE StreakLoop(_, _, _, _)
StreakLoop(es, i, now, w) ==
    IF i > Len(es) THEN w
    ELSE LET d == Strptime(es[i].date)
         IN  IF d > now THEN StreakLoop(es, i + 1, now, w)
             ELSE IF IsSuccess(es[i])
             THEN IF w.streak = 0
                  THEN IF StartsStreak(d, now)
                       THEN StreakLoop(es, i + 1, now,
                                       [streak |-> 1, counted |-> <<d>>])
                       ELSE w
                  ELSE IF d = now - w.streak
                       THEN StreakLoop(es, i + 1, now,
                                       [streak |-> w.streak + 1,
                                        counted |-> Append(w.counted, d)])
                       ELSE w
             ELSE w

\* The streak command.  A report "Current streak for name: k days" is appended
\* to seen with the day it was made and the number of entries logged so far.
StreakRun(name) ==
    /\ \E v \in {ViewHabits(exists, file)} :
         IF v.err # NoErr
         THEN out' = [NoOut EXCEPT !.cmd = "streak", !.name = name, !.err = v.err]
         ELSE \E es \in {SelectSeq(v.habits, LAMBDA h : Lower(h.habit) = Lower(name))} :
                IF BadDates(es)
                THEN out' = [NoOut EXCEPT !.cmd = "streak", !.name = name,
                                          !.err = ValueErr]
                ELSE IF es = <<>>
                THEN out' = [NoOut EXCEPT !.cmd = "streak", !.name = name,
                                          !.msg = "empty"]
                ELSE \E w \in {StreakLoop(sorted, 1, today,
                                          [streak |-> 0, counted |-> <<>>]) :
                               sorted \in {SortByDateDesc(es)}} :
                       out' = [NoOut EXCEPT !.cmd = "streak", !.name = name,
                                            !.msg = "report",
                                            !.found = es,
                                            !.streak = w.streak,
                                            !.counted = w.counted]
    /\ seen' = IF out'.msg = "report"
               THEN Append(seen, [name |-> name, streak |-> out'.streak,
                                  day |-> today, at |-> Len(hist)])
               ELSE seen
    /\ UNCHANGED <<exists, file, today, hist, deleted, calls, last>>

\* The streak command, run once.
Streak(name) == out.cmd = "none" /\ StreakRun(name)

\* The keys of a habit's statistics besides 'total'.
Recognized == {S_completed, S_exceeded, S_partial, S_skipped}

\* defaultdict(lambda: {'total': 0, 'completed': 0, 'skipped': 0, 'partial': 0,
\* 'exceeded': 0}), with the habit it is the value of.
NewStats(name) == [name |-> name, total |-> 0, completed |-> 0, skipped |-> 0,
                   partial |-> 0, exceeded |-> 0]

GroupKeyFold(h) == Lower(h.habit)

\* habit_name = h['habit']: the key of an entry's group.
GroupKey(h) == h.habit

\* habit_stats[habit_name][status] += 1
Bump(g, st) ==
    CASE st = S_total -> [g EXCEPT !.total = @ + 1]
      [] st = S_completed -> [g EXCEPT !.completed = @ + 1]
      [] st = S_skipped -> [g EXCEPT !.skipped = @ + 1]
      [] st = S_partial -> [g EXCEPT !.partial = @ + 1]
      [] st = S_exceeded -> [g EXCEPT !.exceeded = @ + 1]

\* One turn of the loop of stats over entry h: the group of the habit is made on
\* first use (a dict keeps its keys in insertion order), its total is
\* incremented, then the count under the lowered status, which raises KeyError
\* when the status is no key of the group.
StatsStep(gs, h) ==
    LET name == GroupKey(h)
        st == Lower(h.status)
        at == IF \E k \in DOMAIN gs : gs[k].name = name
              THEN gs ELSE Append(gs, NewStats(name))
        k == CHOOSE j \in DOMAIN at : at[j].name = name
        g1 == [at[k] EXCEPT !.total = @ + 1]
    IN  IF st \in Recognized \cup {S_total}
        THEN [err |-> NoErr, groups |-> [at EXCEPT ![k] = Bump(g1, st)]]
        ELSE [err |-> KeyErr, groups |-> [at EXCEPT ![k] = g1]]

RECURSIVE StatsLoop(_, _, _)
StatsLoop(hs, i, gs) ==
    IF i > Len(hs) THEN [err |-> NoErr, groups |-> gs]
    ELSE CHOOSE r \in {IF s.err # NoErr THEN s
                       ELSE StatsLoop(hs, i + 1, s.groups) :
                       s \in {StatsStep(gs, hs[i])}} : TRUE

\* f"{x:.1f}" of x = n / d * 100, in tenths.
RateTenths(n, d) == FTenths(FMulInt(FDiv(n, d), 100))

\* completion_rate = (stats['completed'] + stats['exceeded']) / stats['total'] * 100
CompletionRate(g) == RateTenths(g.completed + g.exceeded, g.total)

\* An option that is not given: `if habit:` takes None as it takes ''.
NotGiven == <<>>

\* The stats command.
Stats(habit, days) ==
    /\ out.cmd = "none"
    /\ \E v \in {ViewHabits(exists, file)} :
         LET o == [NoOut EXCEPT !.cmd = "stats", !.name = habit, !.days = days]
         IN  IF v.err # NoErr THEN out' = [o EXCEPT !.err = v.err]
             ELSE IF BadDates(v.habits) THEN out' = [o EXCEPT !.err = ValueErr]
             ELSE \E recent \in {RecentHabits(v.habits, today, days)} :
                  \E found \in {IF habit = NotGiven THEN recent
                                ELSE SelectSeq(recent,
                                       LAMBDA h : Lower(h.habit) = Lower(habit))} :
                    IF found = <<>>
                    THEN out' = [o EXCEPT !.recent = recent, !.msg = "empty"]
                    ELSE \E r \in {StatsLoop(found, 1, <<>>)} :
                           IF r.err # NoErr
                           THEN out' = [o EXCEPT !.recent = recent,
                                                 !.found = found,
                                                 !.err = r.err]
                           ELSE out' = [o EXCEPT
                                          !.recent = recent,
                                          !.found = found,
                                          !.msg = "report",
                                          !.groups =
                                             [k \in DOMAIN r.groups |->
                                                [name |-> r.groups[k].name,
                                                 total |-> r.groups[k].total,
                                                 completed |-> r.groups[k].completed,
                                                 exceeded |-> r.groups[k].exceeded,
                                                 partial |-> r.groups[k].partial,
                                                 skipped |-> r.groups[k].skipped,
                                                 rate |-> CompletionRate(r.groups[k])]]]
    /\ UNCHANGED <<exists, file, today, hist, deleted, calls, last, seen>>

\* sub in s
Contains(sub, s) ==
    \E i \in 0..Len(s) - Len(sub) : SubSeq(s, i + 1, i + Len(sub)) = sub

\* The search command.
Search(term, status, days) ==
    /\ out.cmd = "none"
    /\ \E v \in {ViewHabits(exists, file)} :
         LET o == [NoOut EXCEPT !.cmd = "search", !.name = term, !.days = days]
         IN  IF v.err # NoErr THEN out' = [o EXCEPT !.err = v.err]
             ELSE IF BadDates(v.habits) THEN out' = [o EXCEPT !.err = ValueErr]
             ELSE \E recent \in {RecentHabits(v.habits, today, days)} :
                  \E byTerm \in {SelectSeq(recent,
                                   LAMBDA h : Contains(Lower(term), Lower(h.habit)))} :
                  \E found \in {IF status = NotGiven THEN byTerm
                                ELSE SelectSeq(byTerm,
                                       LAMBDA h : Lower(h.status) = Lower(status))} :
                    out' = [o EXCEPT !.recent = recent, !.found = found,
                                     !.msg = IF found = <<>> THEN "empty"
                                             ELSE "report"]
    /\ UNCHANGED <<exists, file, today, hist, deleted, calls, last, seen>>

\* The first-encountered order of the values of names: the keys of
\* Counter(names).
Keys(names) ==
    LET firsts == {i \in DOMAIN names : \A j \in 1..i - 1 : names[j] # names[i]}
        rank(i) == Cardinality({j \in firsts : j <= i})
    IN  [k \in 1..Cardinality(firsts) |->
            names[CHOOSE i \in firsts : rank(i) = k]]

Count(names, x) == Cardinality({i \in DOMAIN names : names[i] = x})

TiesLastFirst(i, j) == i > j

\* Of two keys of one count, i and j their places among the keys, the first
\* encountered comes first (sorted(..., reverse=True) keeps their order).
TiesFirstFirst(i, j) == i < j

\* Counter(names).most_common(n): the n keys of largest count with their counts,
\* largest first.
MostCommon(names, n) ==
    LET keys == Keys(names)
        cnt == [k \in DOMAIN keys |-> Count(names, keys[k])]
        pos(i) == Cardinality({j \in DOMAIN keys :
                                  \/ cnt[j] > cnt[i]
                                  \/ cnt[j] = cnt[i] /\ TiesFirstFirst(j, i)}) + 1
        m == IF Len(keys) < n THEN Len(keys) ELSE n
    IN  [k \in 1..m |->
            LET i == CHOOSE i \in DOMAIN keys : pos(i) = k
            IN  [habit |-> keys[i], count |-> cnt[i]]]

\* timedelta(days=7): the week of dashboard and achievements.
Week == 7

\* most_common(3)
TopN == 3

\* [:5], the recent activity shown.
ActivityN == 5

Take(s, n) == SubSeq(s, 1, IF Len(s) < n THEN Len(s) ELSE n)

\* The dashboard command.
Dashboard ==
    /\ out.cmd = "none"
    /\ \E v \in {ViewHabits(exists, file)} :
         LET o == [NoOut EXCEPT !.cmd = "dashboard", !.days = Week]
         IN  IF v.err # NoErr THEN out' = [o EXCEPT !.err = v.err]
             ELSE IF v.habits = <<>> THEN out' = [o EXCEPT !.msg = "empty"]
             ELSE IF BadDates(v.habits) THEN out' = [o EXCEPT !.err = ValueErr]
             ELSE \E recent \in {RecentHabits(v.habits, today, Week)} :
                  \E done \in {Len(SelectSeq(recent, IsSuccess))} :
                    out' = [o EXCEPT
                              !.msg = "report",
                              !.recent = recent,
                              !.found = recent,
                              !.total = Len(v.habits),
                              !.unique = Cardinality({v.habits[i].habit :
                                                        i \in DOMAIN v.habits}),
                              !.rate = IF Len(recent) > 0
                                       THEN RateTenths(done, Len(recent)) ELSE 0,
                              !.top = MostCommon([i \in DOMAIN recent |->
                                                     recent[i].habit], TopN),
                              !.activity = Take(SortByDateDesc(v.habits),
                                                ActivityN)]
    /\ UNCHANGED <<exists, file, today, hist, deleted, calls, last, seen>>

\* bar_length = 30
BarLength == 30

\* (completed_days / total_days) * 100
ProgressPercentage(s, days) == FMulInt(FDiv(s, days), 100)

\* filled_length = int(bar_length * progress_percentage / 100)
FilledLength(s, days) ==
    FTrunc(FDivInt(FMulInt(ProgressPercentage(s, days), BarLength), 100))

\* One habit's chart: its successes, the percentage printed (in tenths) and
\* the bar, '#' * filled_length + '.' * (bar_length - filled_length), a
\* negative count of glyphs giving none.
Chart(name, entries, days) ==
    LET s == Len(SelectSeq(entries, IsSuccess))
    IN  CHOOSE c \in {[name |-> name, completed |-> s,
                       pct |-> FTenths(ProgressPercentage(s, days)),
                       filled |-> f,
                       empty |-> IF BarLength - f < 0 THEN 0 ELSE BarLength - f] :
                      f \in {FilledLength(s, days)}} : TRUE

\* The progress command, days >= 0.
Progress(days) ==
    /\ out.cmd = "none"
    /\ \E v \in {ViewHabits(exists, file)} :
         LET o == [NoOut EXCEPT !.cmd = "progress", !.days = days]
         IN  IF v.err # NoErr THEN out' = [o EXCEPT !.err = v.err]
             ELSE IF v.habits = <<>> THEN out' = [o EXCEPT !.msg = "empty"]
             ELSE IF BadDates(v.habits) THEN out' = [o EXCEPT !.err = ValueErr]
             ELSE \E recent \in {RecentHabits(v.habits, today, days)} :
                  \E keys \in {Keys([i \in DOMAIN recent |-> recent[i].habit])} :
                    IF keys = <<>>
                    THEN out' = [o EXCEPT !.msg = "header", !.recent = recent]
                    ELSE IF days = 0
                    THEN out' = [o EXCEPT !.msg = "header", !.recent = recent,
                                          !.found = recent, !.err = ZeroDiv]
                    ELSE out' = [o EXCEPT
                                   !.msg = "report",
                                   !.recent = recent,
                                   !.found = recent,
                                   !.groups =
                                      [k \in DOMAIN keys |->
                                         Chart(keys[k],
                                               SelectSeq(recent,
                                                  LAMBDA h : h.habit = keys[k]),
                                               days)]]
    /\ UNCHANGED <<exists, file, today, hist, deleted, calls, last, seen>>

\* The badge for the number of entries, "none" when below every threshold.
EntriesBadge(n) ==
    IF n >= 1000 THEN "Data Master"
    ELSE IF n >= 500 THEN "Data Collector"
    ELSE IF n >= 100 THEN "Data Tracker"
    ELSE IF n >= 50 THEN "Data Starter"
    ELSE "none"

\* The badge for the number of habits.
HabitsBadge(n) ==
    IF n >= 10 THEN "Habit Master"
    ELSE IF n >= 5 THEN "Habit Explorer"
    ELSE "none"

\* The badge for the successes of the week.
WeekBadge(n) ==
    IF n >= 20 THEN "Week Warrior"
    ELSE IF n >= 10 THEN "Week Champion"
    ELSE IF n >= 5 THEN "Week Starter"
    ELSE "none"

\* The achievements command.
Achievements ==
    /\ out.cmd = "none"
    /\ \E v \in {ViewHabits(exists, file)} :
         LET o == [NoOut EXCEPT !.cmd = "achievements", !.days = Week]
         IN  IF v.err # NoErr THEN out' = [o EXCEPT !.err = v.err]
             ELSE IF v.habits = <<>> THEN out' = [o EXCEPT !.msg = "empty"]
             ELSE IF BadDates(v.habits) THEN out' = [o EXCEPT !.err = ValueErr]
             ELSE \E recent \in {RecentHabits(v.habits, today, Week)} :
                  \E badges \in {SelectSeq(
                        <<EntriesBadge(Len(v.habits)),
                          HabitsBadge(Cardinality({v.habits[i].habit :
                                                     i \in DOMAIN v.habits})),
                          WeekBadge(Len(SelectSeq(recent, IsSuccess)))>>,
                        LAMBDA b : b # "none")} :
                    out' = [o EXCEPT
                              !.recent = recent,
                              !.found = recent,
                              !.total = Len(v.habits),
                              !.badges = badges,
                              !.msg = IF badges = <<>> THEN "none yet"
                                      ELSE "report"]
    /\ UNCHANGED <<exists, file, today, hist, deleted, calls, last, seen>>

(***************************************************************************)
(* The logs the commands are run on: every log of at most MaxLog rows      *)
(* over a set of rows, written as the store writes them (or restored from  *)
(* a backup), and the logs of the examples.                                *)
(***************************************************************************)
N_A == <<"A">>
N_a == <<"a">>
N_B == <<"B">>
N_C == <<"C">>
N_D == <<"D">>

S_Completed == <<"C","o","m","p","l","e","t","e","d">>
S_EXCEEDED == <<"E","X","C","E","E","D","E","D">>
S_Exceeded == <<"E","x","c","e","e","d","e","d">>
S_Partial == <<"P","a","r","t","i","a","l">>
S_Skipped == <<"S","k","i","p","p","e","d">>
S_Done == <<"D","o","n","e">>
S_Total == <<"T","o","t","a","l">>

\* Today in the analytics specifications: 2024-03-01.
AToday == Today0 + 1

\* str(date) of the days around AToday, computed once.
DateTable == [k \in -DateRange..DateRange |-> DateStr(AToday + k)]

\* The row logged k days from today.
Row(k, h, st) == <<DateTable[k], h, st>>

Logs(rows, n) == UNION {[1..k -> rows] : k \in 0..n}

AInit(logs) ==
    /\ exists = TRUE
    /\ file \in {WriteRows(l) : l \in logs}
    /\ today = AToday
    /\ hist = <<>>
    /\ deleted = FALSE
    /\ calls = 0
    /\ last = NoCall
    /\ seen = <<>>
    /\ out = NoOut

\* --- streak ---
StreakRows ==
    {Row(k, e[1], e[2]) : k \in {-MaxBack, -1, 0, MaxAhead},
                          e \in {<<N_A, S_Completed>>, <<N_A, S_Skipped>>,
                                  <<N_B, S_EXCEEDED>>}}

\* Three successes up to today after a skipped day.
ExStreak3 == <<Row(-3, N_A, S_Skipped), Row(-2, N_A, S_Completed),
               Row(-1, N_A, S_Completed), Row(0, N_A, S_Completed)>>

\* A gap yesterday.
ExStreakGap == <<Row(-2, N_A, S_Completed), Row(0, N_A, S_Completed)>>

\* Three successes up to yesterday, nothing today.
ExStreakYesterday == <<Row(-3, N_A, S_Completed), Row(-2, N_A, S_Completed),
                       Row(-1, N_A, S_Completed)>>

\* Names in two cases, and another habit in between.
ExStreakCases == <<Row(-1, N_a, S_Exceeded), Row(0, N_B, S_Skipped),
                   Row(0, N_A, S_Completed), Row(1, N_a, S_Skipped)>>

StreakExamples == {ExStreak3, ExStreakGap, ExStreakYesterday, ExStreakCases}

StreakNames == {N_a, N_B}

InitStreak == AInit(Logs(StreakRows, MaxLog) \cup StreakExamples)

NextStreak == \E name \in StreakNames : Streak(name)

SpecStreak == InitStreak /\ [][NextStreak]_vars

\* n times the row r.
Times(n, r) == [i \in 1..n |-> r]

\* --- stats ---
StatsRows ==
    {Row(k, h, st) : k \in {0, -(MaxBack + 1)}, h \in {N_A, N_a},
                     st \in {S_Completed, S_Skipped, S_Done}}

\* Ten entries of one habit in the window, 6 Completed + 2 Exceeded + 2 Skipped,
\* among entries of a habit named in the other case, of another habit and of
\* an older day.
ExRate80 == Times(6, Row(0, N_A, S_Completed)) \o <<Row(0, N_a, S_Partial)>>
            \o Times(2, Row(-1, N_A, S_Exceeded))
            \o <<Row(-(MaxBack + 1), N_A, S_Skipped), Row(0, N_B, S_Completed)>>
            \o Times(2, Row(-MaxBack, N_A, S_Skipped))

\* A status that is a key of the statistics though no status of a habit.
ExTotal == <<Row(0, N_A, S_Total), Row(0, N_A, S_EXCEEDED)>>

StatsHabits == {NotGiven, N_a}

InitStats == AInit(Logs(StatsRows, MaxLog) \cup {ExRate80, ExTotal})

NextStats == \E habit \in StatsHabits : Stats(habit, MaxBack)

SpecStats == InitStats /\ [][NextStats]_vars

\* --- dashboard ---
DashRows == {Row(k, h, S_Completed) : k \in {0, -(Week + 1)},
                                      h \in {N_A, N_B, N_C, N_D}}

\* Counts {A:5, B:5, C:3, D:1} in the week, A logged before B.
ExTop3 == <<Row(-1, N_D, S_Skipped), Row(-Week, N_C, S_Completed),
            Row(-1, N_A, S_Completed), Row(0, N_B, S_Completed)>>
          \o Times(4, Row(0, N_B, S_Skipped)) \o Times(2, Row(-2, N_C, S_Partial))
          \o Times(4, Row(0, N_A, S_Completed))

\* Four habits of one entry each in the week, one of them logged before it too.
ExFour == <<Row(-(Week + 1), N_D, S_Completed), Row(0, N_A, S_Completed),
            Row(0, N_B, S_Completed), Row(0, N_C, S_Completed),
            Row(0, N_D, S_Completed)>>

InitDash == AInit(Logs(DashRows, MaxLog) \cup {ExTop3, ExFour})

NextDash == Dashboard

SpecDash == InitDash /\ [][NextDash]_vars

\* --- progress ---
ProgressRows == {Row(k, h, st) : k \in {0, -1}, h \in {N_A, N_B},
                                 st \in {S_Completed, S_Skipped}}

ProgressDays == 0..MaxBack + 1

InitProgress == AInit(Logs(ProgressRows, MaxLog))

NextProgress == \E days \in ProgressDays : Progress(days)

SpecProgress == InitProgress /\ [][NextProgress]_vars

\* --- every command, on logs with entries at the edge of the week ---
EdgeRows == {Row(k, e[1], e[2]) : k \in {-(Week + 1), -Week, MaxAhead},
                                  e \in {<<N_A, S_Completed>>, <<N_B, S_Skipped>>}}

\* Five successes on the first day of the week, and on the day before it.
ExWeek5 == Times(5, Row(-Week, N_A, S_Completed))

ExOld5 == Times(5, Row(-(Week + 1), N_A, S_Completed))

EdgeDays == {0, Week}

InitAll == AInit(Logs(EdgeRows, MaxLog) \cup {ExWeek5, ExOld5})

NextAll ==
    \/ \E habit \in {NotGiven, N_a}, days \in EdgeDays : Stats(habit, days)
    \/ \E name \in {N_a} : Streak(name)
    \/ \E term \in {<<>>, N_a}, status \in {NotGiven, S_completed},
          days \in EdgeDays : Search(term, status, days)
    \/ Dashboard
    \/ \E days \in EdgeDays : Progress(days)
    \/ Achievements

SpecAll == InitAll /\ [][NextAll]_vars

\* --- streak, logging, streak again ---
\* bulk_log habit_name --status status --count count: for i in range(count),
\* tracker.log_habit(habit_name, status); then the number logged is printed.
BulkLog(h, s, count) ==
    /\ calls + count <= MaxRows
    /\ calls' = calls + count
    /\ exists' = (exists \/ count > 0)
    /\ \E text \in {WriteRow(<<DateStr(today), h, s>>)} :
         file' = file \o Concat([i \in 1..count |-> text])
    /\ hist' = hist \o [i \in 1..count |->
                           [day |-> today, habit |-> h, status |-> s]]
    /\ last' = IF count > 0 THEN [NoCall EXCEPT !.op = "log"] ELSE last
    /\ out' = [NoOut EXCEPT !.cmd = "bulk_log", !.name = h, !.total = count]
    /\ UNCHANGED <<today, deleted, seen>>

\* The streak command run again once entries were logged after its last report.
StreakAfterLog(name) ==
    /\ out.cmd # "none"
    /\ IF seen = <<>> THEN TRUE ELSE seen[Len(seen)].at < Len(hist)
    /\ StreakRun(name)

\* Logs of one habit, yesterday and today.
AgainRows == {Row(k, N_A, st) : k \in {-1, 0}, st \in {S_Completed, S_Skipped}}

AgainHabits == {N_A}

AgainStatuses == {S_Completed, S_Exceeded, S_Skipped}

InitAgain == AInit(Logs(AgainRows, MaxLog))

NextAgain ==
    \/ \E name \in {N_A} : Streak(name)
    \/ \E h \in AgainHabits, s \in AgainStatuses :
          out.cmd = "streak" /\ LogHabit(h, s)
    \/ \E h \in AgainHabits, s \in AgainStatuses, count \in 0..MaxRows :
          out.cmd = "streak" /\ BulkLog(h, s, count)
    \/ \E name \in {N_A} : StreakAfterLog(name)

SpecAgain == InitAgain /\ [][NextAgain]_vars

\* --- restore, then delete ---
\* restore backup_path, confirmed, for a backup directory holding habits.csv
\* with the given text: shutil.copy2 puts the text in place of the log.
Restore(text) ==
    /\ exists' = TRUE
    /\ file' = text
    /\ hist' = <<>>
    /\ last' = NoCall
    /\ out' = [NoOut EXCEPT !.cmd = "restore"]
    /\ UNCHANGED <<today, deleted, calls, seen>>

\* The lines of a backup: blank, of one field, or a row that log_habit wrote.
BackupRows ==
    {<<>>, <<N_A>>, <<DateStr(Today0), N_A, S_Done>>,
     <<DateStr(Today0), N_B, S_Done>>}

BackupTexts == {WriteRows(l) : l \in Logs(BackupRows, MaxLog)}

NextRestore ==
    \/ \E text \in BackupTexts : Restore(text)
    \/ \E name \in {N_A, N_B} : DeleteHabit(name)

SpecRestore == Init /\ [][NextRestore]_vars

(***************************************************************************)
(* The entry store: claims.                                                *)
(***************************************************************************)

\* C1 (as claimed): after N >= 1 log_habit calls and no delete, view_habits()
\* returns exactly N entries in call order, entry i carrying habit_i and
\* status_i unchanged and the date of the day of call i.
C1_RoundTrip ==
    \A v \in {ViewHabits(exists, file)} :
        (~deleted /\ calls >= 1) =>
            /\ v.err = NoErr
            /\ Len(v.habits) = calls
            /\ \A i \in DOMAIN v.habits :
                   /\ v.habits[i].habit = hist[i].habit
                   /\ v.habits[i].status = hist[i].status
                   /\ Strptime(v.habits[i].date) = hist[i].day

\* C2: after delete_habit(X) on a well-formed log, view_habits() returns exactly
\* the entries it returned before whose habit is not exactly X, in their
\* order: none with habit X is left, names differing from X in case only are
\* kept, and a call that matches nothing leaves the rows as they were.
C2_DeleteFrame ==
    (last.op = "delete" /\ last.err = NoErr) =>
        \A v \in {ViewHabits(exists, file)} :
            /\ v.err = NoErr
            /\ v.habits = last.expect

\* C2 witness: a delete that removed a row and kept a row whose name differs
\* from the argument only in letter case.
C2_Witness ==
    /\ last.op = "delete" /\ last.err = NoErr
    /\ last.removed >= 1
    /\ last.keptVariant

(***************************************************************************)
(* The analytics commands: claims.  The claims read the log as             *)
(* view_habits() returns it, tell a date by the day it is the text of, and *)
(* compare names and statuses letter by letter.                            *)
(***************************************************************************)
\* The days from today to the date written as s.
OffsetOf(s) ==
    (CHOOSE k \in DOMAIN DateTable : DateTable[k] = s) + (AToday - today)

CasePair(c, d) ==
    \E i \in DOMAIN UpperChars :
        {c, d} = {UpperChars[i], LowerChars[i]}

\* a and b are equal up to the case of their letters.
SameFold(a, b) ==
    /\ Len(a) = Len(b)
    /\ \A i \in DOMAIN a : a[i] = b[i] \/ CasePair(a[i], b[i])

Succeeded(st) == SameFold(st, S_completed) \/ SameFold(st, S_exceeded)

FileStreak3 == WriteRows(ExStreak3)
FileStreakGap == WriteRows(ExStreakGap)
FileStreakYesterday == WriteRows(ExStreakYesterday)

\* C3 (as claimed): every entry counted after the first is dated one day before
\* the entry counted before it, and the streak reported is the number of
\* consecutive days, ending today or yesterday, on which the habit has a
\* success entry; successes on yesterday, today-2 and today-3 give 3.  (The
\* count of days is stated for the logs whose entries of the habit are one a
\* day and all successes, where the claim can be read in one way only.)
C3_StreakDays ==
    (out.cmd = "streak" /\ out.msg = "report") =>
        \A v \in {ViewHabits(exists, file).habits} :
            LET mine == {i \in DOMAIN v : SameFold(v[i].habit, out.name)}
                succ == {OffsetOf(v[i].date) :
                           i \in {j \in mine : /\ Succeeded(v[j].status)
                                               /\ OffsetOf(v[j].date) <= 0}}
                run(start) == CHOOSE n \in 0..DateRange + 1 :
                                 /\ \A k \in 0..n - 1 : start - k \in succ
                                 /\ start - n \notin succ
                days == IF 0 \in succ THEN run(0)
                        ELSE IF -1 \in succ THEN run(-1) ELSE 0
                daily == /\ \A i, j \in mine : v[i].date = v[j].date => i = j
                         /\ \A i \in mine : OffsetOf(v[i].date) <= 0
                                              => Succeeded(v[i].status)
            IN  /\ \A j \in 2..Len(out.counted) :
                       out.counted[j] = out.counted[j - 1] - 1
                /\ daily => out.streak = days
                /\ (file = FileStreakYesterday /\ out.name = N_a) => out.streak = 3

\* C4: the streak command takes the entries of the habit (names compared without
\* case), skips those dated after today whatever their status, and reports at
\* least 1 exactly when the first of the others in date-descending order (the
\* earlier in the log among those of one date) is a success dated today or
\* yesterday, and 0 otherwise; the two examples give 3 and 1.
C4_StreakStart ==
    (out.cmd = "streak" /\ out.err = NoErr) =>
        \A v \in {ViewHabits(exists, file).habits} :
            LET mine == {i \in DOMAIN v : SameFold(v[i].habit, out.name)}
                off(i) == OffsetOf(v[i].date)
                nonfut == {i \in mine : off(i) <= 0}
                first == CHOOSE i \in nonfut :
                            \A j \in nonfut :
                                off(j) < off(i) \/ (off(j) = off(i) /\ j >= i)
                ok == /\ nonfut # {}
                      /\ Succeeded(v[first].status)
                      /\ off(first) \in {0, -1}
            IN  /\ (mine = {}) <=> (out.msg = "empty")
                /\ (out.streak >= 1) <=> ok
                /\ (file = FileStreak3 /\ out.name = N_a) => out.streak = 3
                /\ (file = FileStreakGap /\ out.name = N_a) => out.streak = 1

\* C4 witness: a streak is reported although an entry of the habit dated after
\* today has a status that is no success.
C4_Witness ==
    /\ out.cmd = "streak" /\ out.streak >= 1
    /\ \E v \in {ViewHabits(exists, file).habits} :
           \E i \in DOMAIN v :
               /\ SameFold(v[i].habit, out.name)
               /\ OffsetOf(v[i].date) > 0
               /\ ~Succeeded(v[i].status)


\* The entries the command kept, told from the log: those dated no more than
\* out.days days before today, of the habit asked for when one was asked for.
Kept(v) ==
    {i \in DOMAIN v : /\ OffsetOf(v[i].date) >= -out.days
                      /\ out.name = NotGiven \/ SameFold(v[i].habit, out.name)}

Named(st) == \E r \in Recognized : SameFold(st, r)

Tally(v, is, key) == Cardinality({i \in is : SameFold(v[i].status, key)})

\* C5 (as claimed): stats completes without error whatever the statuses in the
\* window; every group's total is the number of its entries, each named bucket
\* the number of its entries of that status, so the buckets sum to at most the
\* total.
C5_Unrecognized ==
    out.cmd = "stats" =>
        \A v \in {ViewHabits(exists, file).habits} :
            /\ out.err = NoErr
            /\ \A k \in DOMAIN out.groups :
                 LET g == out.groups[k]
                     mine == {i \in Kept(v) : v[i].habit = g.name}
                 IN  /\ g.total = Cardinality(mine)
                     /\ g.completed = Tally(v, mine, S_completed)
                     /\ g.exceeded = Tally(v, mine, S_exceeded)
                     /\ g.partial = Tally(v, mine, S_partial)
                     /\ g.skipped = Tally(v, mine, S_skipped)
                     /\ g.completed + g.exceeded + g.partial + g.skipped <= g.total

FileRate80 == WriteRows(ExRate80)

\* C6: stats reports when the entries it kept are some and all of a named
\* status; its groups are the distinct habit strings of the entries kept (the
\* --habit filter compares names without case), and for a group of named
\* statuses only the rate printed is 100 * (completed + exceeded) / total to one
\* decimal, total the number of its entries, at least 1, so from 0 to 100; the
\* example gives 80.0.
C6_CompletionRate ==
    out.cmd = "stats" =>
        \A v \in {ViewHabits(exists, file).habits} :
            LET kept == Kept(v)
                gs == out.groups
            IN  /\ (kept # {} /\ \A i \in kept : Named(v[i].status))
                       => out.msg = "report"
                /\ out.msg = "report" =>
                     /\ {gs[k].name : k \in DOMAIN gs} = {v[i].habit : i \in kept}
                     /\ \A j, k \in DOMAIN gs : gs[j].name = gs[k].name => j = k
                     /\ \A k \in DOMAIN gs :
                          LET mine == {i \in kept : v[i].habit = gs[k].name}
                              succ == Tally(v, mine, S_completed)
                                      + Tally(v, mine, S_exceeded)
                              total == Cardinality(mine)
                              diff == gs[k].rate * total - 1000 * succ
                          IN  (\A i \in mine : Named(v[i].status)) =>
                                /\ gs[k].total = total
                                /\ total >= 1
                                /\ 2 * diff <= total /\ -2 * diff <= total
                                /\ gs[k].rate >= 0 /\ gs[k].rate <= 1000
                /\ (file = FileRate80 /\ out.name = N_a) =>
                     /\ Len(gs) = 2
                     /\ gs[1].name = N_A /\ gs[1].total = 10 /\ gs[1].rate = 800
                     /\ gs[2].name = N_a /\ gs[2].total = 1 /\ gs[2].rate = 0

\* C6 witness: asked for a habit, stats reports two groups whose names differ in
\* case only, one of them with a rate that is neither 0 nor 100.
C6_Witness ==
    /\ out.cmd = "stats" /\ out.msg = "report" /\ out.name # NotGiven
    /\ \E j, k \in DOMAIN out.groups :
         /\ out.groups[j].name # out.groups[k].name
         /\ SameFold(out.groups[j].name, out.groups[k].name)
         /\ out.groups[j].rate > 0 /\ out.groups[j].rate < 1000


\* The entries of v the filters of the command kept, for the commands with
\* filters of their own: the date window, then the name or term and status.
NoneKept == out.found = <<>>

\* C7 (as claimed): on an empty log, or when its filter keeps no row of a
\* non-empty log, each of stats, streak, search, dashboard, progress and
\* achievements ends normally, having divided by no zero and printed its
\* empty-state message (for the dashboard and achievements, whose filter is
\* the week of one of their figures, the report with a rate of 0 and no badge
\* of the week).
C7_EmptyState ==
    (out.cmd # "none" /\ NoneKept) =>
        \A v \in {ViewHabits(exists, file).habits} :
            /\ out.err = NoErr
            /\ v = <<>> => out.msg = "empty"
            /\ out.cmd \in {"stats", "streak", "search", "progress"}
                   => out.msg = "empty"
            /\ (out.cmd = "dashboard" /\ v # <<>>)
                   => out.msg = "report" /\ out.rate = 0 /\ out.top = <<>>
            /\ (out.cmd = "achievements" /\ v # <<>>)
                   => \A k \in DOMAIN out.badges :
                          out.badges[k] \notin {"Week Warrior", "Week Champion",
                                                "Week Starter"}

\* The entries of the week.
InWeek(v) == {i \in DOMAIN v : OffsetOf(v[i].date) >= -Week}

Min(a, b) == IF a < b THEN a ELSE b

\* The list of the dashboard is a top three of the habits of the week by their
\* number of entries in the week, habits of equal number in the order of their
\* first entries among the entries `scope` of the log.
TopThree(v, scope) ==
    LET wk == InWeek(v)
        names == {v[i].habit : i \in wk}
        cnt(x) == Cardinality({i \in wk : v[i].habit = x})
        first(x) == CHOOSE i \in scope :
                        /\ v[i].habit = x
                        /\ \A j \in scope : v[j].habit = x => i <= j
        top == out.top
        listed == {top[k].habit : k \in DOMAIN top}
        before(x, n, y, m) == n > m \/ (n = m /\ first(x) < first(y))
    IN  /\ Len(top) = Min(TopN, Cardinality(names))
        /\ listed \subseteq names
        /\ \A k \in DOMAIN top : top[k].count = cnt(top[k].habit)
        /\ \A j, k \in DOMAIN top :
               j < k => before(top[j].habit, top[j].count,
                               top[k].habit, top[k].count)
        /\ \A x \in names \ listed : \A k \in DOMAIN top :
               before(top[k].habit, top[k].count, x, cnt(x))

FileTop3 == WriteRows(ExTop3)

C8_Example ==
    file = FileTop3 =>
        out.top = <<[habit |-> N_A, count |-> 5], [habit |-> N_B, count |-> 5],
                    [habit |-> N_C, count |-> 3]>>

\* C8 (as claimed): the dashboard lists at most three habits of the week in
\* non-increasing order of their number of entries in the week, of two habits
\* of equal number first (and in the third place rather than not at all) the
\* one whose first entry in the log is the earlier; {A:5, B:5, C:3, D:1} with
\* A logged before B gives [A(5), B(5), C(3)].
C8_Top3 ==
    (out.cmd = "dashboard" /\ out.msg = "report") =>
        \A v \in {ViewHabits(exists, file).habits} :
            TopThree(v, DOMAIN v) /\ C8_Example

\* C8 (amended): as claimed, but of two habits of equal number the first is the
\* one whose first entry within the week is the earlier in the log.
C8_Top3Window ==
    (out.cmd = "dashboard" /\ out.msg = "report") =>
        \A v \in {ViewHabits(exists, file).habits} :
            TopThree(v, InWeek(v)) /\ C8_Example

\* C8 witness: two habits of equal number are listed, the second of them logged
\* first, before the week.
C8_Witness ==
    /\ out.cmd = "dashboard" /\ Len(out.top) >= 2
    /\ out.top[1].count = out.top[2].count
    /\ \E v \in {ViewHabits(exists, file).habits} :
         \E i \in DOMAIN v \ InWeek(v) :
             /\ v[i].habit = out.top[2].habit
             /\ \A j \in 1..i : v[j].habit # out.top[1].habit


\* floor(30 * s / N)
FilledExact(s, days) == (BarLength * s) \div days

\* C9 (as claimed): for a window of N >= 1 days, the bar of every habit of the
\* window has floor(30 * s / N) filled glyphs, s the number of the habit's
\* successes in the window, and, when that is no more than 30, as many empty
\* glyphs as make it 30 wide.
C9_BarWidth ==
    (out.cmd = "progress" /\ out.msg = "report" /\ out.days >= 1) =>
        \A v \in {ViewHabits(exists, file).habits} :
            \A k \in DOMAIN out.groups :
                LET g == out.groups[k]
                    s == Cardinality({i \in Kept(v) :
                                        /\ v[i].habit = g.name
                                        /\ Succeeded(v[i].status)})
                IN  /\ g.filled = FilledExact(s, out.days)
                    /\ s <= out.days => g.filled + g.empty = BarLength

\* C10: stats, search and progress, for the days N they are given, and dashboard
\* and achievements, for N = 7, keep the entries dated today - N or later,
\* those dated after today among them, and no other; so the totals of stats
\* add up to the number of those entries of the habit asked for, and the badge
\* of the week is given for the successes among them.
C10_DateWindow ==
    (/\ out.cmd \in {"stats", "search", "progress", "dashboard", "achievements"}
     /\ out.err \in {NoErr, ZeroDiv}) =>
        \A v \in {ViewHabits(exists, file).habits} :
            /\ out.cmd \in {"dashboard", "achievements"} => out.days = 7
            /\ out.recent = SelectSeq(v, LAMBDA h : OffsetOf(h.date) >= -out.days)
            /\ \A i \in DOMAIN v :
                   (\E k \in DOMAIN out.recent : out.recent[k] = v[i])
                       <=> OffsetOf(v[i].date) >= -out.days
            /\ (out.cmd = "stats" /\ out.msg = "report") =>
                   \A k \in DOMAIN out.groups :
                       out.groups[k].total =
                           Cardinality({i \in Kept(v) :
                                          v[i].habit = out.groups[k].name})
            /\ (out.cmd = "achievements" /\ v # <<>>) =>
                   LET n == Cardinality({i \in InWeek(v) : Succeeded(v[i].status)})
                   IN  (\E k \in DOMAIN out.badges : out.badges[k] = "Week Starter")
                           <=> (n >= 5 /\ n < 10)

\* C10 witness: a command has run on a log with an entry dated today - N, which
\* it kept, one dated today - N - 1, which it did not, and one dated after
\* today, which it kept.
C10_Witness ==
    /\ out.cmd \in {"stats", "search", "progress", "dashboard", "achievements"}
    /\ out.err = NoErr
    /\ out.days >= 1
    /\ \E v \in {ViewHabits(exists, file).habits} :
         /\ \E i \in DOMAIN v : OffsetOf(v[i].date) = -out.days - 1
         /\ \E k \in DOMAIN out.recent : OffsetOf(out.recent[k].date) = -out.days
         /\ \E k \in DOMAIN out.recent : OffsetOf(out.recent[k].date) > 0
         /\ Len(out.recent) = Len(v) - 1

(***************************************************************************)
(* Logging after a streak report: claims.                                  *)
(***************************************************************************)

\* The entries logged between two streak reports are all successes of the
\* habit reported, logged on the day of the first report.
OnlySuccessesBetween(a, b) ==
    /\ a.at < b.at
    /\ \A n \in (a.at + 1)..b.at :
          /\ hist[n].habit = a.name
          /\ hist[n].status \in {S_Completed, S_Exceeded}
          /\ hist[n].day = a.day

\* C11 (as claimed): if the streak command reported k for habit h and, on the
\* same day, only log_habit(h, 'Completed') or log_habit(h, 'Exceeded') calls
\* were made since (one call, or several by bulk_log), then the next streak
\* report for h is at least k.
C11_StreakMonotone ==
    \A i \in DOMAIN seen, j \in DOMAIN seen :
        ( /\ i < j
          /\ ~deleted
          /\ seen[i].name = seen[j].name
          /\ seen[i].day = seen[j].day
          /\ OnlySuccessesBetween(seen[i], seen[j]) )
        => seen[j].streak >= seen[i].streak

(***************************************************************************)
(* Deleting from a log with a malformed row: claims.                       *)
(***************************************************************************)

\* C12 (as claimed): when delete_habit fails with IndexError on a row of fewer
\* than two fields, the log holds after the call the rows it held before it,
\* in the same order.
C12_DeleteKeepsLog ==
    [][(last'.op = "delete" /\ last'.err = IndexErr)
         => ReadRows(file').rows = ReadRows(file).rows]_vars

(***************************************************************************)
(* The history of the log: claims.                                         *)
(***************************************************************************)

\* C13 (as claimed): after log_habit and delete_habit calls on a log that
\* started empty, with the day only moving forward, view_habits() returns
\* exactly the entries (date of call, habit, status) of the log_habit calls not
\* followed by a delete_habit of exactly the same habit, in call order and
\* unmodified, and none is dated after the current day.
C13_LogHistory ==
    exists =>
        \A v \in {ViewHabits(exists, file)} :
            /\ v.err = NoErr
            /\ v.habits = [i \in DOMAIN hist |->
                              Entry(DateStr(hist[i].day), hist[i].habit,
                                    hist[i].status)]
            /\ \A i \in DOMAIN v.habits : Strptime(v.habits[i].date) <= today

====
